---- MODULE Spec2Model ----
(***************************************************************************)
(* A model of pubtatortool: PubTatorDocument (character labelling, the     *)
(* token/character co-walk over the diff, sentence token groups) and       *)
(* PubTatorCorpus (concept and semantic type counts).                      *)
(*                                                                         *)
(* Strings are sequences of one-character strings.  Python's None is the   *)
(* empty tuple, a label is the pair <<cui, semantic_type_ID>>.  Python     *)
(* indices are 0-based, TLA+ sequences 1-based: x[i] in the code is        *)
(* x[i + 1] here.                                                          *)
(***************************************************************************)
EXTENDS Integers, Sequences, FiniteSets, TLC

VARIABLES
    pc,                           \* position in the constructor
    len_raw_text,                 \* len(self.raw_text)
    text_lens,                    \* [len(t) for t in self.text]
    umls_entities,                \* self.umls_entities
    diff,                         \* the per-character flag list of line 157
    char_level_targets,
    token_targets,
    chars_left_in_current_token,
    current_char_index,
    current_token_index,
    token_to_char_lookup,         \* entry k + 1 is the list of key k
    flag_pos,                     \* number of flags of diff already looped over
    \* PubTatorDocument.__init__ and sentence_targets
    title, abstract,              \* the title and abstract after text_preprocess
    tokenization,                 \* tokenizer.tokenization
    raw_text, sentences, text,
    start,                        \* sentence_targets: its local `start`
    yielded,                      \* sentence_targets: the slices yielded so far
    \* PubTatorCorpus
    tokenizer,                    \* the tokenizer argument of PubTatorCorpus
    document_list,
    doc_index, entity_index,      \* the two loops of _get_cuids_and_vocab
    cuids, stids, vocab

inputVars == <<len_raw_text, text_lens, umls_entities, diff>>
walkVars == <<token_targets, chars_left_in_current_token, current_char_index,
              current_token_index, token_to_char_lookup, flag_pos>>
docVars == <<title, abstract, tokenization, raw_text, sentences, text>>
genVars == <<start, yielded>>
corpusVars == <<tokenizer, document_list, doc_index, entity_index, cuids, stids, vocab>>

vars == <<pc, inputVars, char_level_targets, walkVars, docVars, genVars, corpusVars>>

----------------------------------------------------------------------------
(* Bounds of the model. *)

MaxDiff == 3
MaxMentions == 1
MaxRawLen == 2
MaxEntities == 2
MaxTitle == 1
MaxAbstract == 4
MaxDocs == 2
MaxDocMentions == 2

----------------------------------------------------------------------------
(* Values. *)

None == <<>>

\* the flags of diff_match_patch, as the comment of lines 130-134 gives them
COMMON == 0
RAW_ONLY == -1
JOINED_ONLY == 1
Flags == {COMMON, RAW_ONLY, JOINED_ONLY}

SeqsUpTo(S, n) == UNION {[1..k -> S] : k \in 0..n}

RECURSIVE CountIn(_, _)
CountIn(d, S) ==
    IF d = <<>> THEN 0
    ELSE (IF d[Len(d)] \in S THEN 1 ELSE 0) + CountIn(SubSeq(d, 1, Len(d) - 1), S)

\* characters of raw_text / of ''.join(self.text) that a flag list stands for
RawCount(d) == CountIn(d, {COMMON, RAW_ONLY})
JoinedCount(d) == CountIn(d, {COMMON, JOINED_ONLY})

\* the token lists whose concatenation has m characters (no tokenizer of
\* tokenization.py yields an empty token)
RECURSIVE TokenLens(_)
TokenLens(m) ==
    IF m = 0 THEN {<<>>}
    ELSE UNION {{<<f>> \o c : c \in TokenLens(m - f)} : f \in 1..m}

\* UMLS_Entity.__init__: the attributes a mention line sets
UMLS_Entity(first, last, stid, cui) ==
    [start_idx |-> first, stop_idx |-> last, semantic_type_ID |-> stid, cui |-> cui]

Mentions(n, cuis) ==
    {UMLS_Entity(s, t, "T1", c) : s \in (-1)..n, t \in 0..(n + 1), c \in cuis}

\* seq[i] of Python for a list: a negative index counts from the end
PyIndex(seq, i) == IF i < 0 THEN seq[Len(seq) + i + 1] ELSE seq[i + 1]

----------------------------------------------------------------------------
(* _initialize_targets, lines 117-124: the character labels. *)

\* a labelling that stops at the first mention covering i
RECURSIVE EntityLoop_FirstMatch(_, _, _, _)
EntityLoop_FirstMatch(i, ents, k, label) ==
    IF k > Len(ents) THEN label
    ELSE IF i >= ents[k].start_idx /\ i < ents[k].stop_idx
         THEN <<ents[k].cui, ents[k].semantic_type_ID>>
         ELSE EntityLoop_FirstMatch(i, ents, k + 1, label)

RECURSIVE EntityLoop(_, _, _, _)
EntityLoop(i, ents, k, label) ==
    IF k > Len(ents) THEN label
    ELSE EntityLoop(i, ents, k + 1,
                    IF i >= ents[k].start_idx /\ i < ents[k].stop_idx
                    THEN <<ents[k].cui, ents[k].semantic_type_ID>>
                    ELSE label)

\* a labelling that gives up on a mention outside the raw text
CharLevelTargets_Rejecting(n, ents) ==
    IF \E k \in 1..Len(ents) :
           ents[k].start_idx < 0 \/ ents[k].start_idx >= ents[k].stop_idx
               \/ ents[k].stop_idx > n
    THEN <<>>
    ELSE [i \in 1..n |-> EntityLoop(i - 1, ents, 1, None)]

\* a labelling with one slot too many
CharLevelTargets_ExtraSlot(n, ents) ==
    [i \in 1..(n + 1) |-> EntityLoop(i - 1, ents, 1, None)]

CharLevelTargets(n, ents) == [i \in 1..n |-> EntityLoop(i - 1, ents, 1, None)]

InitializeCharTargets ==
    /\ pc = "labels"
    /\ char_level_targets' = CharLevelTargets(len_raw_text, umls_entities)
    /\ pc' = "start"
    /\ UNCHANGED <<inputVars, walkVars, docVars, genVars, corpusVars>>

----------------------------------------------------------------------------
(* _initialize_targets, lines 160-173: the state the co-walk starts from.  *)
(* next(token) on an exhausted iterator raises StopIteration.              *)

StartWalk ==
    /\ pc = "start"
    /\ token_targets' = [k \in 1..Len(text_lens) |-> None]
    /\ IF text_lens = <<>>
       THEN /\ pc' = "StopIteration"
            /\ UNCHANGED <<chars_left_in_current_token, current_char_index,
                           current_token_index, token_to_char_lookup>>
       ELSE /\ chars_left_in_current_token' = text_lens[1]
            /\ current_char_index' = -1
            /\ current_token_index' = 0
            /\ token_to_char_lookup' = <<<<>>>>
            /\ pc' = "walk"
    /\ UNCHANGED <<inputVars, char_level_targets, flag_pos, docVars, genVars,
                   corpusVars>>

----------------------------------------------------------------------------
(* _initialize_targets, lines 174-202: one iteration of `for flag in diff`. *)

\* lines 179-180
AssignTarget(targets, token_index, char_targets, char_index) ==
    [targets EXCEPT ![token_index + 1] = PyIndex(char_targets, char_index)]

\* a raw cursor that stays put on a character the tokens dropped
NextCharIndex_CommonOnly(flag, char_index) ==
    IF flag = COMMON THEN char_index + 1 ELSE char_index

\* lines 189 and 197
NextCharIndex(flag, char_index) ==
    IF flag = COMMON \/ flag = RAW_ONLY THEN char_index + 1 ELSE char_index

\* lines 193 and 202
NextCharsLeft(flag, left) ==
    IF flag = COMMON \/ flag = JOINED_ONLY THEN left - 1 ELSE left

\* lines 191-192
NextLookup(flag, lookup, token_index, char_index) ==
    IF flag = COMMON
    THEN [lookup EXCEPT ![token_index + 1] = Append(@, char_index)]
    ELSE lookup

WalkStep ==
    /\ pc = "walk"
    /\ flag_pos < Len(diff)
    /\ LET flag == diff[flag_pos + 1]
           finalize == chars_left_in_current_token = 0
           targets1 == IF finalize
                       THEN AssignTarget(token_targets, current_token_index,
                                         char_level_targets, current_char_index)
                       ELSE token_targets
           index1 == IF finalize THEN current_token_index + 1
                     ELSE current_token_index
           lookup1 == IF finalize THEN Append(token_to_char_lookup, <<>>)
                      ELSE token_to_char_lookup
       IN  /\ token_targets' = targets1
           /\ current_token_index' = index1
           /\ IF finalize /\ index1 >= Len(text_lens)
              THEN \* line 184: next(token) raises StopIteration
                   /\ pc' = "StopIteration"
                   /\ token_to_char_lookup' = lookup1
                   /\ UNCHANGED <<chars_left_in_current_token,
                                  current_char_index, flag_pos>>
              ELSE LET left1 == IF finalize THEN text_lens[index1 + 1]
                                ELSE chars_left_in_current_token
                       char1 == NextCharIndex(flag, current_char_index)
                   IN  /\ current_char_index' = char1
                       /\ token_to_char_lookup' =
                              NextLookup(flag, lookup1, index1, char1)
                       /\ chars_left_in_current_token' = NextCharsLeft(flag, left1)
                       /\ flag_pos' = flag_pos + 1
                       /\ pc' = "walk"
    /\ UNCHANGED <<inputVars, char_level_targets, docVars, genVars, corpusVars>>

\* lines 203-204: the loop is over, the targets become attributes
FinishWalk ==
    /\ pc = "walk"
    /\ flag_pos = Len(diff)
    /\ pc' = "done"
    /\ UNCHANGED <<inputVars, char_level_targets, walkVars, docVars, genVars,
                   corpusVars>>

----------------------------------------------------------------------------
(* The aligner on any raw text, mention list, token list and diff: the     *)
(* diff is any flag list that covers raw_text and the joined tokens.       *)

\* nothing of _initialize_targets has run
NotStarted ==
    /\ char_level_targets = <<>>
    /\ token_targets = <<>>
    /\ chars_left_in_current_token = 0
    /\ current_char_index = -1
    /\ current_token_index = 0
    /\ token_to_char_lookup = <<>>
    /\ flag_pos = 0
    /\ start = 0
    /\ yielded = <<>>

\* the specification does not follow the text of the document
NoDocumentText ==
    /\ title = <<>>
    /\ abstract = <<>>
    /\ tokenization = "none"
    /\ raw_text = <<>>
    /\ sentences = <<>>
    /\ text = <<>>

\* the specification holds no corpus
NoCorpus ==
    /\ tokenizer = "None"
    /\ document_list = <<>>
    /\ doc_index = 0
    /\ entity_index = 0
    /\ cuids = <<>>
    /\ stids = <<>>
    /\ vocab = {}

Init ==
    /\ pc = "labels"
    /\ diff \in {d \in SeqsUpTo(Flags, MaxDiff) : RawCount(d) >= 1}
    /\ len_raw_text = RawCount(diff)
    /\ text_lens \in TokenLens(JoinedCount(diff))
    /\ umls_entities \in SeqsUpTo(Mentions(len_raw_text, {"C1"}), MaxMentions)
    /\ NotStarted
    /\ NoDocumentText
    /\ NoCorpus

Next == InitializeCharTargets \/ StartWalk \/ WalkStep \/ FinishWalk

Spec == Init /\ [][Next]_vars

----------------------------------------------------------------------------
(* The character labelling alone, lines 117-124, on any raw text length    *)
(* and mention list: the diff of line 129 is not computed yet.             *)

InitLabel ==
    /\ pc = "labels"
    /\ len_raw_text \in 1..MaxRawLen
    /\ umls_entities \in SeqsUpTo(Mentions(len_raw_text, {"C1", "C2"}), MaxEntities)
    /\ text_lens = <<>>
    /\ diff = <<>>
    /\ NotStarted
    /\ NoDocumentText
    /\ NoCorpus

SpecLabel == InitLabel /\ [][InitializeCharTargets]_vars

----------------------------------------------------------------------------
(* PubTatorDocument.__init__, lines 81-107, on a title and an abstract, and *)
(* the diff of lines 126-158.                                               *)

Chars == {"a", ".", " "}
Whitespace == {" ", "\n"}

\* str.split(sep) for a one-character separator
RECURSIVE Split(_, _)
Split(s, sep) ==
    LET at == {i \in 1..Len(s) : s[i] = sep}
    IN  IF at = {} THEN <<s>>
        ELSE LET i == CHOOSE x \in at : \A y \in at : x <= y
             IN  <<SubSeq(s, 1, i - 1)>> \o Split(SubSeq(s, i + 1, Len(s)), sep)

\* CharTokenizer.tokenize: list(text)
CharTokenizer_tokenize(s) == [i \in 1..Len(s) |-> <<s[i]>>]

\* WordTokenizer.tokenize: TweetTokenizer drops the whitespace and yields the
\* words and the runs of punctuation between it
CharClass(c) == IF c \in Whitespace THEN "space" ELSE IF c = "." THEN "punct" ELSE "word"

RunLen(s) ==
    LET runs == {n \in 1..Len(s) : \A j \in 1..n : CharClass(s[j]) = CharClass(s[1])}
    IN  CHOOSE n \in runs : \A m \in runs : m <= n

RECURSIVE WordTokenizer_tokenize(_)
WordTokenizer_tokenize(s) ==
    IF s = <<>> THEN <<>>
    ELSE IF s[1] \in Whitespace THEN WordTokenizer_tokenize(Tail(s))
    ELSE <<SubSeq(s, 1, RunLen(s))>>
             \o WordTokenizer_tokenize(SubSeq(s, RunLen(s) + 1, Len(s)))

tokenize(kind, s) ==
    IF kind = "CHAR" THEN CharTokenizer_tokenize(s) ELSE WordTokenizer_tokenize(s)

\* TweetTokenizer keeps periods that only whitespace separates in one token,
\* whitespace included: the texts of the model hold no such periods
SpacedDots(s) ==
    \E i, j \in 1..Len(s) :
        /\ i + 1 < j
        /\ s[i] = "." /\ s[j] = "."
        /\ \A m \in (i + 1)..(j - 1) : s[m] \in Whitespace

\* where the Punkt sentence tokenizer may end a sentence: on a period followed
\* by whitespace and more text; whether it does is its trained model's choice
SentenceEnds(s) ==
    {i \in 1..Len(s) : /\ s[i] = "."
                       /\ i < Len(s) /\ s[i + 1] \in Whitespace
                       /\ \E j \in (i + 2)..Len(s) : s[j] \notin Whitespace}

\* sentence_tok.tokenize with the sentence ends `ends`: the whitespace between
\* two sentences and after the last one belongs to no sentence
RECURSIVE sent_tokenize(_, _, _)
sent_tokenize(s, ends, from) ==
    LET later == {e \in ends : e >= from}
        kept == {j \in from..Len(s) : s[j] \notin Whitespace}
    IN  IF later = {}
        THEN IF kept = {} THEN <<>>
             ELSE <<SubSeq(s, from, CHOOSE x \in kept : \A y \in kept : y <= x)>>
        ELSE LET e == CHOOSE x \in later : \A y \in later : x <= y
                 rest == {j \in (e + 1)..Len(s) : s[j] \notin Whitespace}
             IN  <<SubSeq(s, from, e)>>
                     \o sent_tokenize(s, ends, CHOOSE x \in rest : \A y \in rest : x <= y)

\* lines 94-102: the token groups of the title and of the abstract's sentences
Sentences(kind, raw, ends) ==
    LET split == Split(raw, "\n")
        extended == split \o sent_tokenize(split[2], ends, 1)
        deleted == <<extended[1]>> \o SubSeq(extended, 3, Len(extended))
    IN  [k \in 1..Len(deleted) |-> tokenize(kind, deleted[k])]

\* ''.join(tokens)
RECURSIVE Join(_)
Join(tokens) == IF tokens = <<>> THEN <<>> ELSE tokens[1] \o Join(Tail(tokens))

\* lines 129 and 157-158: the flags of dmp.diff_main(raw, joined), for a joined
\* text that is raw without some of its characters (both tokenizers above)
RECURSIVE diff_main(_, _)
diff_main(raw, joined) ==
    IF raw = <<>> THEN [k \in 1..Len(joined) |-> JOINED_ONLY]
    ELSE IF joined # <<>> /\ raw[1] = joined[1]
         THEN <<COMMON>> \o diff_main(Tail(raw), Tail(joined))
         ELSE <<RAW_ONLY>> \o diff_main(Tail(raw), joined)

Document__init__ ==
    /\ pc = "init"
    /\ LET raw == title \o <<"\n">> \o abstract
           tokens == tokenize(tokenization, raw)
       IN  /\ raw_text' = raw
           /\ \E ends \in SUBSET SentenceEnds(abstract) :
                  sentences' = Sentences(tokenization, raw, ends)
           /\ text' = tokens
           /\ len_raw_text' = Len(raw)
           /\ text_lens' = [k \in 1..Len(tokens) |-> Len(tokens[k])]
           /\ diff' = diff_main(raw, Join(tokens))
    /\ pc' = "labels"
    /\ UNCHANGED <<umls_entities, char_level_targets, walkVars, title, abstract,
                   tokenization, genVars, corpusVars>>

\* list[a:b] of Python for 0 <= a <= b
PySlice(seq, a, b) ==
    SubSeq(seq, (IF a < Len(seq) THEN a ELSE Len(seq)) + 1,
                IF b < Len(seq) THEN b ELSE Len(seq))

\* sentence_targets, lines 229-233: one turn of the generator's loop
SentenceTargetsYield ==
    /\ pc = "done"
    /\ Len(yielded) < Len(sentences)
    /\ LET end == start + Len(sentences[Len(yielded) + 1])
       IN  /\ yielded' = Append(yielded, PySlice(token_targets, start, end))
           /\ start' = end
    /\ UNCHANGED <<pc, inputVars, char_level_targets, walkVars, docVars, corpusVars>>

\* the mentions of the documents below: from the start of the text to any place
DocMentions(n) == {UMLS_Entity(0, t, "T1", "C1") : t \in 1..n}

InitDocument ==
    /\ pc = "init"
    /\ title \in SeqsUpTo(Chars, MaxTitle)
    /\ abstract \in SeqsUpTo(Chars, MaxAbstract)
    /\ ~ SpacedDots(title \o <<"\n">> \o abstract)
    /\ tokenization \in {"CHAR", "WORD"}
    /\ umls_entities \in SeqsUpTo(DocMentions(Len(title) + 1 + Len(abstract)), MaxMentions)
    /\ raw_text = <<>>
    /\ sentences = <<>>
    /\ text = <<>>
    /\ len_raw_text = 0
    /\ text_lens = <<>>
    /\ diff = <<>>
    /\ NotStarted
    /\ NoCorpus

NextDocument ==
    \/ Document__init__
    \/ InitializeCharTargets
    \/ StartWalk
    \/ WalkStep
    \/ FinishWalk
    \/ SentenceTargetsYield

SpecDocument == InitDocument /\ [][NextDocument]_vars

----------------------------------------------------------------------------
(* PubTatorCorpus.__init__ and _get_cuids_and_vocab.                        *)

\* the mentions and documents of the corpus files
CorpusMentions == {UMLS_Entity(0, 1, st, c) : st \in {"T1", "T2"}, c \in {"C1", "C2"}}

CorpusDocuments ==
    {[umls_entities |-> es, text |-> t] :
        es \in SeqsUpTo(CorpusMentions, MaxDocMentions),
        t \in {<< <<"a">> >>, << <<"a">>, <<".">> >>}}

\* lines 37-46: line 44 reads tokenizer.tokenization, of None when no tokenizer
\* is given; _init_documents builds the documents of the files
Corpus__init__ ==
    /\ pc = "corpus_init"
    /\ IF tokenizer = "None"
       THEN /\ pc' = "AttributeError"
            /\ UNCHANGED document_list
       ELSE /\ pc' = "count"
            /\ document_list' \in SeqsUpTo(CorpusDocuments, MaxDocs)
    /\ UNCHANGED <<inputVars, char_level_targets, walkVars, docVars, genVars,
                   tokenizer, doc_index, entity_index, cuids, stids, vocab>>

\* lines 62-65 and 66-69: one more occurrence of id in the dict counts
CountOne(counts, id) ==
    IF id \in DOMAIN counts THEN [counts EXCEPT ![id] = @ + 1] ELSE counts @@ (id :> 1)

\* lines 61-69: one mention of the current document; reading an attribute that
\* UMLS_Entity.__init__ never sets raises AttributeError
GetCuidsStep ==
    /\ pc = "count"
    /\ doc_index < Len(document_list)
    /\ entity_index < Len(document_list[doc_index + 1].umls_entities)
    /\ LET entity == document_list[doc_index + 1].umls_entities[entity_index + 1]
       IN  IF "concept_ID" \notin DOMAIN entity
           THEN /\ pc' = "AttributeError"
                /\ UNCHANGED <<entity_index, cuids, stids>>
           ELSE /\ cuids' = CountOne(cuids, entity.concept_ID)
                /\ stids' = CountOne(stids, entity.semantic_type_ID)
                /\ entity_index' = entity_index + 1
                /\ pc' = "count"
    /\ UNCHANGED <<inputVars, char_level_targets, walkVars, docVars, genVars,
                   tokenizer, document_list, doc_index, vocab>>

\* line 70, after the mentions of the current document
VocabStep ==
    /\ pc = "count"
    /\ doc_index < Len(document_list)
    /\ entity_index = Len(document_list[doc_index + 1].umls_entities)
    /\ vocab' = vocab \cup {document_list[doc_index + 1].text[k] :
                               k \in 1..Len(document_list[doc_index + 1].text)}
    /\ doc_index' = doc_index + 1
    /\ entity_index' = 0
    /\ UNCHANGED <<pc, inputVars, char_level_targets, walkVars, docVars, genVars,
                   tokenizer, document_list, cuids, stids>>

\* lines 71 and 48-49
ReturnCounts ==
    /\ pc = "count"
    /\ doc_index = Len(document_list)
    /\ pc' = "corpus_done"
    /\ UNCHANGED <<inputVars, char_level_targets, walkVars, docVars, genVars,
                   corpusVars>>

InitCorpus ==
    /\ pc = "corpus_init"
    /\ tokenizer \in {"None", "given"}
    /\ document_list = <<>>
    /\ doc_index = 0
    /\ entity_index = 0
    /\ cuids = <<>>
    /\ stids = <<>>
    /\ vocab = {}
    /\ len_raw_text = 0
    /\ text_lens = <<>>
    /\ umls_entities = <<>>
    /\ diff = <<>>
    /\ NotStarted
    /\ NoDocumentText

NextCorpus == Corpus__init__ \/ GetCuidsStep \/ VocabStep \/ ReturnCounts

SpecCorpus == InitCorpus /\ [][NextCorpus]_vars

----------------------------------------------------------------------------
(* What the claims speak of, computed from the inputs alone. *)

Covers(e, i) == e.start_idx <= i /\ i < e.stop_idx
InRange(e) == 0 <= e.start_idx /\ e.start_idx < e.stop_idx /\ e.stop_idx <= len_raw_text
Label(e) == <<e.cui, e.semantic_type_ID>>
Max(S) == CHOOSE x \in S : \A y \in S : y <= x
Min(S) == CHOOSE x \in S : \A y \in S : x <= y

RECURSIVE Sum(_)
Sum(s) == IF s = <<>> THEN 0 ELSE s[Len(s)] + Sum(SubSeq(s, 1, Len(s) - 1))

RECURSIVE Flatten(_)
Flatten(ss) == IF ss = <<>> THEN <<>> ELSE Flatten(SubSeq(ss, 1, Len(ss) - 1)) \o ss[Len(ss)]

Range(s) == {s[p] : p \in 1..Len(s)}

\* the index of the last raw character consumed by the first p flags of d (-1: none)
RawIndexAfter(d, p) == RawCount(SubSeq(d, 1, p)) - 1

\* the number of flags of diff consumed when token k (from 1) gets its last character
TokenEnd(k) ==
    Min({p \in 1..Len(diff) :
            JoinedCount(SubSeq(diff, 1, p)) = Sum(SubSeq(text_lens, 1, k))})

\* the last raw character index consumed while token k (from 1) was filled
LastRawOfToken(k) == RawIndexAfter(diff, TokenEnd(k))

\* the raw positions the first p flags of diff classify COMMON
CommonRawPositions(p) == {RawIndexAfter(diff, q) : q \in {r \in 1..p : diff[r] = COMMON}}

WalkOver == pc = "done"

----------------------------------------------------------------------------
(* The claims. *)

\* C1 (as claimed; the code contradicts it): after the co-walk, every token k,
\* the last one included, carries the label of the last raw character consumed
\* while it was filled.
C1_EveryTokenLabelled ==
    WalkOver =>
        \A k \in 1..Len(text_lens) :
            LastRawOfToken(k) >= 0 =>
                token_targets[k] = char_level_targets[LastRawOfToken(k) + 1]

\* C2 (as claimed; the code contradicts it): when the co-walk finishes, the
\* token cursor equals len(tokens).
C2_CursorAtEnd == WalkOver => current_token_index = Len(text_lens)

\* C3: char_level_targets[i] is None when no mention covers i, and else the
\* label of the last mention of the list that covers i.
C3_LastCoveringEntityWins ==
    pc # "labels" =>
        \A i \in 0..(len_raw_text - 1) :
            LET covering == {k \in 1..Len(umls_entities) : Covers(umls_entities[k], i)}
            IN  char_level_targets[i + 1] =
                    IF covering = {} THEN None ELSE Label(umls_entities[Max(covering)])

\* C3's case: two mentions with different labels cover one character, labelled.
C3_Witness ==
    /\ pc = "start"
    /\ Len(umls_entities) = 2
    /\ umls_entities[1].cui # umls_entities[2].cui
    /\ \E i \in 0..(len_raw_text - 1) :
           /\ Covers(umls_entities[1], i)
           /\ Covers(umls_entities[2], i)
           /\ char_level_targets[i + 1] = Label(umls_entities[2])

\* C4: at every step of the co-walk and at its end, token_to_char_lookup holds
\* valid raw indices only, no index in two tokens' lists, and its lists in token
\* order give, strictly increasing, exactly the raw positions classified COMMON
\* so far.
C4_LookupWellFormed ==
    pc \in {"walk", "done", "StopIteration"} =>
        LET flat == Flatten(token_to_char_lookup)
        IN  /\ \A p \in 1..Len(flat) : 0 <= flat[p] /\ flat[p] < len_raw_text
            /\ \A k1, k2 \in 1..Len(token_to_char_lookup) :
                   k1 # k2 => Range(token_to_char_lookup[k1])
                                  \cap Range(token_to_char_lookup[k2]) = {}
            /\ \A p, q \in 1..Len(flat) : p < q => flat[p] < flat[q]
            /\ Range(flat) = CommonRawPositions(flag_pos)

\* C4's case: the walk is over a diff with a dropped character, and two tokens
\* hold raw characters.
C4_Witness ==
    /\ WalkOver
    /\ RAW_ONLY \in Range(diff)
    /\ \E k1, k2 \in 1..Len(token_to_char_lookup) :
           k1 # k2 /\ token_to_char_lookup[k1] # <<>> /\ token_to_char_lookup[k2] # <<>>

\* C5 (as claimed; the code contradicts it): the sentence token groups partition
\* the document's tokens, sum(len(sentence)) == len(self.text), so that
\* sentence_targets yields every token label once and in order, for the
\* character tokenizer as for the word tokenizer.
C5_SentencesPartitionTokens ==
    pc \notin {"init"} /\ tokenization # "none" =>
        /\ Sum([k \in 1..Len(sentences) |-> Len(sentences[k])]) = Len(text)
        /\ WalkOver /\ Len(yielded) = Len(sentences) => Flatten(yielded) = token_targets

\* C6 (as claimed; the code contradicts it): corpus construction over documents
\* with at least one mention succeeds, and the concept and semantic type counts
\* are the numbers of mentions bearing each identifier over all documents.
C6_CountsExact ==
    LET all == {<<d, k>> \in (1..Len(document_list)) \X (1..MaxDocMentions) :
                   k <= Len(document_list[d].umls_entities)}
        mention(m) == document_list[m[1]].umls_entities[m[2]]
        cuis == {mention(m).cui : m \in all}
        types == {mention(m).semantic_type_ID : m \in all}
    IN  /\ all # {} => pc # "AttributeError"
        /\ pc = "corpus_done" =>
               /\ DOMAIN cuids = cuis
               /\ DOMAIN stids = types
               /\ \A c \in cuis :
                      cuids[c] = Cardinality({m \in all : mention(m).cui = c})
               /\ \A t \in types :
                      stids[t] = Cardinality({m \in all : mention(m).semantic_type_ID = t})

\* C7 (as claimed; refuted): a mention whose offsets violate
\* 0 <= start < end <= len(raw_text) keeps the document from being built.
C7_BadOffsetsRejected ==
    (\E k \in 1..Len(umls_entities) : ~ InRange(umls_entities[k])) => ~ WalkOver

\* C7 (amended): offsets are not checked. Whatever the offsets, the labelling
\* completes and labels exactly the positions of raw_text inside some span, and
\* construction fails only by exhausting the token iterator (no token, or raw
\* characters after the last token's), never because of a mention.
C7_OffsetsNotChecked ==
    /\ pc # "labels" =>
           /\ Len(char_level_targets) = len_raw_text
           /\ \A i \in 0..(len_raw_text - 1) :
                  char_level_targets[i + 1] # None <=>
                      \E k \in 1..Len(umls_entities) : Covers(umls_entities[k], i)
    /\ pc = "StopIteration" => text_lens = <<>> \/ diff[Len(diff)] = RAW_ONLY
    /\ pc = "walk" /\ flag_pos = Len(diff) => diff[Len(diff)] # RAW_ONLY

\* C7's case: a document is built whose mention starts before the text and
\* ends after it.
C7_Witness ==
    /\ WalkOver
    /\ \E k \in 1..Len(umls_entities) :
           umls_entities[k].start_idx < 0 /\ umls_entities[k].stop_idx > len_raw_text
    /\ \A i \in 1..len_raw_text : char_level_targets[i] # None

\* C8 (as claimed; the code contradicts it): a single mention spanning the whole
\* raw text leaves its label on every token, the last included.
C8_FullSpanLabelsEveryToken ==
    (/\ WalkOver
     /\ Len(umls_entities) = 1
     /\ umls_entities[1].start_idx = 0
     /\ umls_entities[1].stop_idx = len_raw_text) =>
        \A k \in 1..Len(text_lens) : token_targets[k] = Label(umls_entities[1])

\* C9: a constructed document has one character label per raw character and
\* one token label per token.
C9_LabelLengths ==
    WalkOver =>
        /\ Len(char_level_targets) = len_raw_text
        /\ Len(token_targets) = Len(text_lens)

\* C9's case: a document is built whose tokenizer dropped a character and
\* inserted one, with a mention.
C9_Witness ==
    /\ WalkOver
    /\ RAW_ONLY \in Range(diff)
    /\ JOINED_ONLY \in Range(diff)
    /\ umls_entities # <<>>
    /\ Len(text_lens) = 2

\* C10 (as claimed; the code contradicts it): with a non-empty token list the
\* walk never exhausts the token iterator, and ends with the lookup keys
\* 0..len(tokens)-1.
C10_NoExhaustedIterator ==
    text_lens # <<>> =>
        /\ pc # "StopIteration"
        /\ WalkOver => Len(token_to_char_lookup) = Len(text_lens)

\* C11 (as claimed; the code contradicts it): a token finalized while the raw
\* cursor is still -1, before any raw character was reached, gets the empty
\* label, never the label of another position such as the last character.
C11_NoLabelBeforeFirstRawChar ==
    pc \in {"walk", "done"} =>
        \A k \in 1..current_token_index :
            LastRawOfToken(k) < 0 => token_targets[k] = None

====
